---- MODULE Spec2Model ----
(***************************************************************************)
(* Model of the strategy containers of ilqgames (utils/strategy.h): the    *)
(* non-owning StrategyRef over a shared primal buffer, the owned Strategy, *)
(* their constructors, control operators and NumVariables(); and of the    *)
(* outer iterative LQ loop with its line search.                           *)
(*                                                                         *)
(* Conventions.  Floats are modelled by integers, so "equal to floating    *)
(* point tolerance" becomes exact equality.  C++ indices are 0-based; the  *)
(* sequences here are 1-based, so timestep kk of the code is element kk+1  *)
(* and player_idx i of the code is player i+1.  Offsets into the primal    *)
(* buffer (primal_idx, initial_idx) keep the code's 0-based values.        *)
(* An Eigen matrix is [rows, cols, data] with data in column-major order.  *)
(***************************************************************************)
EXTENDS Integers, Sequences, FiniteSets, TLC

\* ------------------------------- bounds ---------------------------------
MaxHorizon == 2
MaxDim == 2
MaxWrites == 1
MaxIterations == 2
MaxBacktrackingSteps == 2
MaxCost == 8
NumSeeds == 2
ValMax == 1

Players == {1, 2}
Vals == (0 - ValMax)..ValMax
Seeds == 0..(NumSeeds - 1)
Dims == 1..MaxDim
Horizons == 0..MaxHorizon

\* Size of the primal buffer: room for every player's largest strategy.
BufLen == Cardinality(Players) * MaxHorizon * (MaxDim * MaxDim + MaxDim)

\* Deterministic fill pattern for buffers and operating points.
Val(n) == (n % (2 * ValMax + 1)) - ValMax

VARIABLES problem, primals, refs, strat, out, nwrites, lastWrite, alive,
          state, iteration, scale, rollouts, nominal, cand, log, status,
          ret

stratVars == <<problem, primals, refs, strat, out, nwrites, lastWrite, alive>>

solverVars == <<state, iteration, scale, rollouts, nominal, cand, log, status>>

exampleVars == <<ret>>

vars == <<stratVars, solverVars, exampleVars>>

\* ------------------------- Eigen-style linear algebra -------------------
RECURSIVE SumTo(_, _)
SumTo(f, n) == IF n = 0 THEN 0 ELSE f[n] + SumTo(f, n - 1)

\* VectorXf::Zero(n)
ZeroVector(n) == [k \in 1..n |-> 0]

\* MatrixXf::Zero(rows, cols)
ZeroMatrix(rows, cols) ==
  [rows |-> rows, cols |-> cols, data |-> [k \in 1..(rows * cols) |-> 0]]

\* Eigen's size(): rows() * cols() of a matrix, length of a vector.
MatSize(M) == M.rows * M.cols

\* Coefficient (r, c), 1-based, of a column-major matrix.
Coeff(M, r, c) == M.data[(c - 1) * M.rows + r]

\* Eigen only defines M * x when M.cols() == x.size().
MatVecDefined(M, x) == M.cols = Len(x)

MatVec(M, x) ==
  [r \in 1..M.rows |-> SumTo([c \in 1..M.cols |-> Coeff(M, r, c) * x[c]], M.cols)]

VecAdd(a, b) == [k \in 1..Len(a) |-> a[k] + b[k]]
VecSub(a, b) == [k \in 1..Len(a) |-> a[k] - b[k]]
VecNeg(a) == [k \in 1..Len(a) |-> 0 - a[k]]

\* Eigen::Map<MatrixXf>(&primals(off), rows, cols) read as a matrix.
MapMatrix(buf, view) ==
  [rows |-> view.rows, cols |-> view.cols,
   data |-> [k \in 1..(view.rows * view.cols) |-> buf[view.off + k]]]

\* primals.segment(off, len) read as a vector.
SegmentVector(buf, view) == [k \in 1..view.len |-> buf[view.off + k]]

\* Buffer indices (0-based) a view covers.
PRange(view) == view.off..(view.off + view.rows * view.cols - 1)
AlphaRange(view) == view.off..(view.off + view.len - 1)

\* ------------------------------ StrategyRef -----------------------------
\* primal_idx after the gain view of one timestep (strategy.h:69).
PrimalIdxAfterP(primal_idx, xdim, udim) == primal_idx + xdim * udim

PrimalIdxAfterAlphaStuck(primal_idx, udim) == primal_idx

\* primal_idx after the feedforward view of one timestep (strategy.h:71).
PrimalIdxAfterAlpha(primal_idx, udim) == primal_idx + udim

\* The gain view of one timestep: Eigen::Map<MatrixXf>(ptr, rows, cols) is
\* called with (xdim, udim), so the view has xdim rows and udim columns.
PView(primal_idx, xdim, udim) == [off |-> primal_idx, rows |-> xdim, cols |-> udim]

\* The feedforward view of one timestep: primals.segment(primal_idx, udim).
AlphaView(primal_idx, udim) == [off |-> primal_idx, len |-> udim]

\* The constructor's loop over kk = 0 .. horizon-1.
RECURSIVE StrategyRefLoop(_, _, _, _, _, _, _)
StrategyRefLoop(kk, horizon, xdim, udim, primal_idx, Ps, alphas) ==
  IF kk < horizon
    THEN StrategyRefLoop(kk + 1, horizon, xdim, udim,
           PrimalIdxAfterAlpha(PrimalIdxAfterP(primal_idx, xdim, udim), udim),
           Append(Ps, PView(primal_idx, xdim, udim)),
           Append(alphas, AlphaView(PrimalIdxAfterP(primal_idx, xdim, udim), udim)))
    ELSE [Ps |-> Ps, alphas |-> alphas]

NoRef ==
  [built |-> FALSE, horizon |-> 0, xdim |-> 0, udim |-> 0, initial_idx |-> 0,
   Ps |-> <<>>, alphas |-> <<>>]

\* StrategyRef(horizon, xdim, udim, primals, initial_idx).  The fields
\* horizon, xdim, udim, initial_idx record the constructor's arguments.
StrategyRef(horizon, xdim, udim, initial_idx) ==
  LET views == StrategyRefLoop(0, horizon, xdim, udim, initial_idx, <<>>, <<>>)
  IN [built |-> TRUE, horizon |-> horizon, xdim |-> xdim, udim |-> udim,
      initial_idx |-> initial_idx, Ps |-> views.Ps, alphas |-> views.alphas]

\* Every index the views touch lies inside the buffer.
ViewsFit(horizon, xdim, udim, initial_idx) ==
  initial_idx + horizon * (xdim * udim + udim) <= BufLen

\* StrategyRef::operator(): -Ps[time_index] * x - alphas[time_index] is
\* defined when the index is in range and the shapes agree.
RefCallDefined(ref, time_index, x) ==
  /\ time_index \in 1..Len(ref.Ps)
  /\ ref.Ps[time_index].cols = Len(x)
  /\ ref.Ps[time_index].rows = ref.alphas[time_index].len

RefCallValue(buf, ref, time_index, x) ==
  VecSub(VecNeg(MatVec(MapMatrix(buf, ref.Ps[time_index]), x)),
         SegmentVector(buf, ref.alphas[time_index]))

StrategyRefNumVariablesNoHorizon(ref) ==
  ref.Ps[1].rows * ref.Ps[1].cols + ref.alphas[1].len

\* StrategyRef::NumVariables() on a view with at least one timestep.
StrategyRefNumVariables(ref) ==
  Len(ref.Ps) * (ref.Ps[1].rows * ref.Ps[1].cols + ref.alphas[1].len)

\* ------------------------------- Strategy -------------------------------
\* An operating point as the constructor reads it: xs[kk] and us[kk][i].
NoOperatingPoint == [xs |-> <<>>, us |-> <<>>]

OperatingPoint(horizon, xdim, udims, sx, su) ==
  [xs |-> [t \in 1..horizon |-> [k \in 1..xdim |-> Val(sx + t + k)]],
   us |-> [t \in 1..horizon |->
            [i \in Players |-> [k \in 1..udims[i] |-> Val(su + t + i + k)]]]]

NoStrategy ==
  [kind |-> "none", horizon |-> 0, xdim |-> 0, udim |-> 0,
   Ps |-> <<>>, alphas |-> <<>>, other |-> 0, op |-> NoOperatingPoint,
   player_idx |-> 0]

StrategyPreallocSwapped(horizon, xdim, udim) ==
  [kind |-> "prealloc", horizon |-> horizon, xdim |-> xdim, udim |-> udim,
   Ps |-> [ii \in 1..horizon |-> ZeroMatrix(xdim, udim)],
   alphas |-> [ii \in 1..horizon |-> ZeroVector(udim)],
   other |-> 0, op |-> NoOperatingPoint, player_idx |-> 0]

\* Strategy(horizon, xdim, udim).
StrategyPrealloc(horizon, xdim, udim) ==
  [kind |-> "prealloc", horizon |-> horizon, xdim |-> xdim, udim |-> udim,
   Ps |-> [ii \in 1..horizon |-> ZeroMatrix(udim, xdim)],
   alphas |-> [ii \in 1..horizon |-> ZeroVector(udim)],
   other |-> 0, op |-> NoOperatingPoint, player_idx |-> 0]

\* Strategy(other, op, player_idx) reads op.us[kk][player_idx] and
\* op.xs[kk] for every kk < other.Ps.size() and adds three vectors; it is
\* defined when those elements exist and all the shapes agree.
FromRefDefined(other, op, player_idx) ==
  \A kk \in 1..Len(other.Ps) :
    /\ kk <= Len(op.xs)
    /\ kk <= Len(op.us)
    /\ other.Ps[kk].cols = Len(op.xs[kk])
    /\ other.Ps[kk].rows = other.alphas[kk].len
    /\ Len(op.us[kk][player_idx]) = other.alphas[kk].len

\* alphas[kk] = other.alphas[kk] + op.us[kk][player_idx] - Ps[kk] * op.xs[kk]
FromRefAlpha(buf, other, op, player_idx, kk) ==
  VecSub(VecAdd(SegmentVector(buf, other.alphas[kk]), op.us[kk][player_idx]),
         MatVec(MapMatrix(buf, other.Ps[kk]), op.xs[kk]))

\* The strategy the constructor builds when it is defined.
StrategyFromRefValue(buf, p, other, op, player_idx) ==
  [kind |-> "fromref", horizon |-> other.horizon, xdim |-> other.xdim,
   udim |-> other.udim,
   Ps |-> [kk \in 1..Len(other.Ps) |-> MapMatrix(buf, other.Ps[kk])],
   alphas |-> [kk \in 1..Len(other.alphas) |->
                 FromRefAlpha(buf, other, op, player_idx, kk)],
   other |-> p, op |-> op, player_idx |-> player_idx]

\* The strategy left behind when the constructor's expression is ill-formed
\* and the process survives: the gains are copied, every feedforward term
\* holds g.
StrategyFromRefGarbage(buf, p, other, op, player_idx, g) ==
  [kind |-> "fromref", horizon |-> other.horizon, xdim |-> other.xdim,
   udim |-> other.udim,
   Ps |-> [kk \in 1..Len(other.Ps) |-> MapMatrix(buf, other.Ps[kk])],
   alphas |-> [kk \in 1..Len(other.alphas) |-> g],
   other |-> p, op |-> op, player_idx |-> player_idx]

\* Strategy::operator(): u_ref - Ps[time_index] * delta_x - alphas[time_index].
StrategyCallDefined(s, time_index, delta_x, u_ref) ==
  /\ time_index \in 1..Len(s.Ps)
  /\ s.Ps[time_index].cols = Len(delta_x)
  /\ s.Ps[time_index].rows = Len(u_ref)
  /\ Len(s.alphas[time_index]) = Len(u_ref)

StrategyCallValue(s, time_index, delta_x, u_ref) ==
  VecSub(VecSub(u_ref, MatVec(s.Ps[time_index], delta_x)), s.alphas[time_index])

\* Strategy::NumVariables() on a strategy with at least one timestep.
StrategyNumVariables(s) ==
  Len(s.Ps) * (MatSize(s.Ps[1]) + Len(s.alphas[1]))

\* --------------------------- inputs of the calls ------------------------
\* Vectors of length n handed to the operators: every shift of the pattern.
XVectors(n) == {[k \in 1..n |-> Val(s + k)] : s \in 0..(2 * ValMax)}

\* Timesteps a caller may ask for (element kk+1 for the code's kk).
TimeIndices == 1..MaxHorizon

\* Shapes (horizon, xdim, udim) of the operating points handed to
\* Strategy(other, op, player_idx): the problem's own shape and the shapes
\* that are off by one in the horizon, the state or the control dimension.
OpShapes(horizon, xdim, udim) ==
  {<<horizon, xdim, udim>>, <<horizon, xdim + 1, udim>>,
   <<horizon, xdim, udim + 1>>}
  \cup (IF horizon > 0 THEN {<<horizon - 1, xdim, udim>>} ELSE {})

OperatingPoints(horizon, xdim, udim, seed) ==
  {OperatingPoint(sh[1], sh[2], [i \in Players |-> sh[3]], seed, seed + 1) :
     sh \in OpShapes(horizon, xdim, udim)}

\* The nominal operating point of the problem for controls of length udim.
Nominal(udim) ==
  OperatingPoint(problem.horizon, problem.xdim, [i \in Players |-> udim],
                 problem.seed, problem.seed + 1)

\* What a read outside a container or an ill-shaped Eigen expression can
\* leave in a vector when the process survives it.
UBVectors(n) == {[k \in 1..n |-> v] : v \in {0 - ValMax, ValMax}}

\* Where a caller may place a view: at the start of the buffer, one entry
\* in, or where an already built view of another player ends.
InitialIdxs ==
  {0, 1} \cup {refs[q].initial_idx
                 + refs[q].horizon * (refs[q].xdim * refs[q].udim + refs[q].udim) :
               q \in {r \in Players : refs[r].built}}

\* The packed layout: the first view starts the buffer, every further view
\* starts where an already built one ends.
PackedIdxs ==
  IF \A q \in Players : ~refs[q].built
    THEN {0}
    ELSE {refs[q].initial_idx
            + refs[q].horizon * (refs[q].xdim * refs[q].udim + refs[q].udim) :
          q \in {r \in Players : refs[r].built}}

\* The player whose nominal control is handed to Strategy::operator().
CallPlayer == IF strat.player_idx \in Players THEN strat.player_idx ELSE 1

\* The value returned by the most recent operation.
Out(op, p, t, x, dx, u, num, vec) ==
  [op |-> op, p |-> p, t |-> t, x |-> x, dx |-> dx, u |-> u,
   num |-> num, vec |-> vec]

NoOut == Out("none", 0, 0, <<>>, <<>>, <<>>, 0, <<>>)

NoWrite == [p |-> 0, kind |-> "none", t |-> 0]

StratInit ==
  /\ problem \in [horizon : Horizons, xdim : Dims, seed : Seeds]
  /\ primals = [k \in 1..BufLen |-> Val(problem.seed + k)]
  /\ refs = [p \in Players |-> NoRef]
  /\ strat = NoStrategy
  /\ out = NoOut
  /\ nwrites = 0
  /\ lastWrite = NoWrite
  /\ alive = TRUE

\* ------------------------------- actions --------------------------------
\* StrategyRef(horizon, xdim, udim, primals, initial_idx) for player p.
NewStrategyRef(p, udim, initial_idx) ==
  /\ alive
  /\ ~refs[p].built
  /\ ViewsFit(problem.horizon, problem.xdim, udim, initial_idx)
  /\ refs' = [refs EXCEPT ![p] =
                StrategyRef(problem.horizon, problem.xdim, udim, initial_idx)]
  /\ out' = Out("StrategyRef", p, 0, <<>>, <<>>, <<>>, 0, <<>>)
  /\ UNCHANGED <<problem, primals, strat, nwrites, lastWrite, alive, solverVars, exampleVars>>

\* A write of coefficient (r, c) through the gain view of timestep t.
WriteP(p, t, r, c, v) ==
  /\ alive
  /\ refs[p].built
  /\ nwrites < MaxWrites
  /\ t \in 1..Len(refs[p].Ps)
  /\ r \in 1..refs[p].Ps[t].rows
  /\ c \in 1..refs[p].Ps[t].cols
  /\ primals' = [primals EXCEPT
                   ![refs[p].Ps[t].off + (c - 1) * refs[p].Ps[t].rows + r] = v]
  /\ nwrites' = nwrites + 1
  /\ lastWrite' = [p |-> p, kind |-> "P", t |-> t]
  /\ out' = NoOut
  /\ UNCHANGED <<problem, refs, strat, alive, solverVars, exampleVars>>

\* A write of coefficient k through the feedforward view of timestep t.
WriteAlpha(p, t, k, v) ==
  /\ alive
  /\ refs[p].built
  /\ nwrites < MaxWrites
  /\ t \in 1..Len(refs[p].alphas)
  /\ k \in 1..refs[p].alphas[t].len
  /\ primals' = [primals EXCEPT ![refs[p].alphas[t].off + k] = v]
  /\ nwrites' = nwrites + 1
  /\ lastWrite' = [p |-> p, kind |-> "alpha", t |-> t]
  /\ out' = NoOut
  /\ UNCHANGED <<problem, refs, strat, alive, solverVars, exampleVars>>

\* StrategyRef::NumVariables().  On a view without timesteps Ps.front()
\* reads an empty vector: the process dies or the product with
\* horizon = 0 is returned.
RefNumVariables(p) ==
  /\ alive
  /\ refs[p].built
  /\ IF Len(refs[p].Ps) > 0
       THEN /\ out' = Out("RefNumVariables", p, 0, <<>>, <<>>, <<>>,
                          StrategyRefNumVariables(refs[p]), <<>>)
            /\ alive' = TRUE
       ELSE \/ /\ out' = Out("RefNumVariables", p, 0, <<>>, <<>>, <<>>, 0, <<>>)
               /\ alive' = FALSE
            \/ /\ out' = Out("RefNumVariables", p, 0, <<>>, <<>>, <<>>, 0, <<>>)
               /\ alive' = TRUE
  /\ UNCHANGED <<problem, primals, refs, strat, nwrites, lastWrite, solverVars, exampleVars>>

\* StrategyRef::operator()(time_index, x).
RefCall(p, time_index, x) ==
  /\ alive
  /\ refs[p].built
  /\ IF RefCallDefined(refs[p], time_index, x)
       THEN /\ out' = Out("RefCall", p, time_index, x, <<>>, <<>>, 0,
                          RefCallValue(primals, refs[p], time_index, x))
            /\ alive' = TRUE
       ELSE \/ /\ out' = Out("RefCall", p, time_index, x, <<>>, <<>>, 0, <<>>)
               /\ alive' = FALSE
            \/ /\ \E g \in UBVectors(refs[p].udim) :
                    out' = Out("RefCall", p, time_index, x, <<>>, <<>>, 0, g)
               /\ alive' = TRUE
  /\ UNCHANGED <<problem, primals, refs, strat, nwrites, lastWrite, solverVars, exampleVars>>

\* Strategy(horizon, xdim, udim).
NewStrategy(udim) ==
  /\ alive
  /\ strat' = StrategyPrealloc(problem.horizon, problem.xdim, udim)
  /\ out' = Out("Strategy", 0, 0, <<>>, <<>>, <<>>, 0, <<>>)
  /\ UNCHANGED <<problem, primals, refs, nwrites, lastWrite, alive, solverVars, exampleVars>>

\* Strategy(other, op, player_idx) with other the view of player p.  No
\* argument is checked: with an operating point that is too short or
\* shapes that disagree the process dies or the feedforward terms hold
\* whatever the ill-formed expression left there.
StrategyFromRef(p, op, player_idx) ==
  /\ alive
  /\ refs[p].built
  /\ IF FromRefDefined(refs[p], op, player_idx)
       THEN /\ strat' = StrategyFromRefValue(primals, p, refs[p], op, player_idx)
            /\ alive' = TRUE
       ELSE \/ /\ strat' = [NoStrategy EXCEPT !.kind = "aborted", !.other = p,
                                                !.op = op,
                                                !.player_idx = player_idx]
               /\ alive' = FALSE
            \/ /\ \E g \in UBVectors(refs[p].udim) :
                    strat' = StrategyFromRefGarbage(primals, p, refs[p], op,
                                                    player_idx, g)
               /\ alive' = TRUE
  /\ out' = Out("StrategyFromRef", p, 0, <<>>, <<>>, <<>>, 0, <<>>)
  /\ UNCHANGED <<problem, primals, refs, nwrites, lastWrite, solverVars, exampleVars>>

\* Strategy::NumVariables(); as for the view, Ps.front() of a strategy
\* without timesteps reads an empty vector.
NumVariables ==
  /\ alive
  /\ strat.kind # "none"
  /\ IF Len(strat.Ps) > 0
       THEN /\ out' = Out("NumVariables", 0, 0, <<>>, <<>>, <<>>,
                          StrategyNumVariables(strat), <<>>)
            /\ alive' = TRUE
       ELSE \/ /\ out' = Out("NumVariables", 0, 0, <<>>, <<>>, <<>>, 0, <<>>)
               /\ alive' = FALSE
            \/ /\ out' = Out("NumVariables", 0, 0, <<>>, <<>>, <<>>, 0, <<>>)
               /\ alive' = TRUE
  /\ UNCHANGED <<problem, primals, refs, strat, nwrites, lastWrite, solverVars, exampleVars>>

\* Strategy::operator()(time_index, delta_x, u_ref).
StrategyCall(time_index, delta_x, u_ref) ==
  /\ alive
  /\ strat.kind # "none"
  /\ IF StrategyCallDefined(strat, time_index, delta_x, u_ref)
       THEN /\ out' = Out("StrategyCall", 0, time_index, <<>>, delta_x, u_ref, 0,
                          StrategyCallValue(strat, time_index, delta_x, u_ref))
            /\ alive' = TRUE
       ELSE \/ /\ out' = Out("StrategyCall", 0, time_index, <<>>, delta_x, u_ref,
                             0, <<>>)
               /\ alive' = FALSE
            \/ /\ \E g \in UBVectors(strat.udim) :
                    out' = Out("StrategyCall", 0, time_index, <<>>, delta_x, u_ref,
                               0, g)
               /\ alive' = TRUE
  /\ UNCHANGED <<problem, primals, refs, strat, nwrites, lastWrite, solverVars, exampleVars>>

\* ------------------------- outer ILQ loop (sec. 4.2, 4.3, 7) ------------
\* A candidate must beat the nominal cost by at least this margin.
Margin == 1

\* Slack allowed between consecutive accepted costs.
NumericalSlack == 0

\* A cost change below this tolerance passes the convergence test.
Tolerance == 2

Costs == 0..MaxCost

Terminal == {"Converged", "Failed"}

NoCandidate == [id |-> 0, cost |-> 0, feasible |-> FALSE, finite |-> TRUE,
                num |-> 1, den |-> 1, accepted |-> FALSE]

AcceptedUnchecked(cost, feasible, nominal_cost) == feasible

\* The line search accepts a candidate whose total cost is smaller than the
\* nominal's by the margin and that is not flagged infeasible.
Accepted(cost, feasible, nominal_cost) ==
  feasible /\ cost + Margin <= nominal_cost

BacktrackBudgetLeftOneMore(n) == n <= MaxBacktrackingSteps

\* Another rollout fits the line search's budget of backtracking steps.
BacktrackBudgetLeft(n) == n < MaxBacktrackingSteps

IterationBudgetLeftOneMore(n) == n <= MaxIterations

\* Another outer iteration fits the configured maximum iteration count.
IterationBudgetLeft(n) == n < MaxIterations

\* The scale after one backtracking step: half the scale.
Halved(sc) == [num |-> sc.num, den |-> 2 * sc.den]

\* The convergence test on an accepted step.
ConvergenceTest(old_cost, new_cost, small_update) ==
  old_cost - new_cost < Tolerance \/ small_update

SolverInit ==
  /\ state = "Initializing"
  /\ iteration = 0
  /\ scale = [num |-> 1, den |-> 1]
  /\ rollouts = 0
  /\ nominal = [id |-> 0, cost |-> 0]
  /\ cand = NoCandidate
  /\ log = <<>>
  /\ status = "running"

\* Initializing: the first rollout establishes iteration 0.
Initialize(cost, finite) ==
  /\ state = "Initializing"
  /\ IF finite
       THEN /\ nominal' = [id |-> 1, cost |-> cost]
            /\ log' = <<[iteration |-> 0, op |-> 1, cost |-> cost]>>
            /\ state' = "Linearizing"
            /\ status' = status
       ELSE /\ state' = "Failed"
            /\ status' = "failed"
            /\ UNCHANGED <<nominal, log>>
  /\ UNCHANGED <<iteration, scale, rollouts, cand, stratVars, exampleVars>>

\* Linearizing: Jacobians and quadraticizations about the nominal.
Linearize(finite) ==
  /\ state = "Linearizing"
  /\ IF finite
       THEN state' = "Solving" /\ status' = status
       ELSE state' = "Failed" /\ status' = "failed"
  /\ UNCHANGED <<iteration, scale, rollouts, nominal, cand, log, stratVars, exampleVars>>

\* Solving: the coupled LQ solve; the line search then starts at scale 1.
Solve(ok) ==
  /\ state = "Solving"
  /\ IF ok
       THEN /\ state' = "LineSearching"
            /\ scale' = [num |-> 1, den |-> 1]
            /\ rollouts' = 0
            /\ cand' = NoCandidate
            /\ status' = status
       ELSE /\ state' = "Failed"
            /\ status' = "failed"
            /\ UNCHANGED <<scale, rollouts, cand>>
  /\ UNCHANGED <<iteration, nominal, log, stratVars, exampleVars>>

\* LineSearching: one rollout at the current scale and its verdict.
Rollout(cost, feasible, finite, small_update) ==
  /\ state = "LineSearching"
  /\ BacktrackBudgetLeft(rollouts)
  /\ rollouts' = rollouts + 1
  /\ IF ~finite
       THEN /\ cand' = [id |-> nominal.id + 1, cost |-> cost,
                        feasible |-> feasible, finite |-> FALSE,
                        num |-> scale.num, den |-> scale.den,
                        accepted |-> FALSE]
            /\ state' = "Failed"
            /\ status' = "failed"
            /\ UNCHANGED <<iteration, scale, nominal, log>>
       ELSE IF Accepted(cost, feasible, nominal.cost)
         THEN /\ cand' = [id |-> nominal.id + 1, cost |-> cost,
                          feasible |-> feasible, finite |-> TRUE,
                          num |-> scale.num, den |-> scale.den, accepted |-> TRUE]
              /\ nominal' = [id |-> nominal.id + 1, cost |-> cost]
              /\ log' = Append(log, [iteration |-> iteration + 1,
                                     op |-> nominal.id + 1, cost |-> cost])
              /\ scale' = scale
              /\ IF ConvergenceTest(nominal.cost, cost, small_update)
                   THEN /\ state' = "Converged"
                        /\ status' = "converged"
                        /\ iteration' = iteration
                   ELSE IF IterationBudgetLeft(iteration)
                     THEN /\ state' = "Linearizing"
                          /\ status' = status
                          /\ iteration' = iteration + 1
                     ELSE /\ state' = "Converged"
                          /\ status' = "nonconverged"
                          /\ iteration' = iteration
         ELSE /\ cand' = [id |-> nominal.id + 1, cost |-> cost,
                          feasible |-> feasible, finite |-> TRUE,
                          num |-> scale.num, den |-> scale.den, accepted |-> FALSE]
              /\ scale' = Halved(scale)
              /\ UNCHANGED <<iteration, nominal, log>>
              /\ IF BacktrackBudgetLeft(rollouts + 1)
                   THEN state' = "LineSearching" /\ status' = status
                   ELSE state' = "Converged" /\ status' = "converged"
  /\ UNCHANGED <<stratVars, exampleVars>>

\* ------------- one-player reachability example: renderer accessors ------
\* State layout (x, y, theta, omega) of the example's single player, the
\* delayed Dubins car, in the code's 0-based indices.
kPxIdx == 0
kPyIdx == 1
kThetaIdx == 2
kOmegaIdx == 3

\* Dimension of the joint state of the one-player example.
XDim == 4

\* one_player_reachability_example.cpp:101-104.
kP1XIdx == kPxIdx
kP1YIdx == kPyIdx
kP1ThetaIdx == kThetaIdx
kP1OmegaIdx == kOmegaIdx

\* Joint states handed to the accessors.
JointStates == [1..XDim -> Vals]

\* x(idx) with the code's 0-based idx.
At(x, idx) == x[idx + 1]

\* OnePlayerReachabilityExample::Xs: {x(kP1XIdx)}.
XsValue(x) == <<At(x, kP1XIdx)>>

\* OnePlayerReachabilityExample::Ys: {x(kP1YIdx)}.
YsValue(x) == <<At(x, kP1YIdx)>>

\* OnePlayerReachabilityExample::Thetas: {x(kP1OmegaIdx)}.
ThetasValue(x) == <<At(x, kP1OmegaIdx)>>

NoRet == [fn |-> "none", x |-> <<>>, val |-> <<>>]

ExampleInit == ret = NoRet

Xs(x) ==
  /\ ret' = [fn |-> "Xs", x |-> x, val |-> XsValue(x)]
  /\ UNCHANGED <<stratVars, solverVars>>

Ys(x) ==
  /\ ret' = [fn |-> "Ys", x |-> x, val |-> YsValue(x)]
  /\ UNCHANGED <<stratVars, solverVars>>

Thetas(x) ==
  /\ ret' = [fn |-> "Thetas", x |-> x, val |-> ThetasValue(x)]
  /\ UNCHANGED <<stratVars, solverVars>>

\* ----------------------------- specifications ---------------------------
Init == StratInit /\ SolverInit /\ ExampleInit

\* The containers: construction and NumVariables().
ConstructNext ==
  \/ \E p \in Players, udim \in Dims, initial_idx \in PackedIdxs :
       NewStrategyRef(p, udim, initial_idx)
  \/ \E p \in Players : RefNumVariables(p)
  \/ \E udim \in Dims : NewStrategy(udim)
  \/ \E p \in Players, player_idx \in Players :
       \E op \in OperatingPoints(problem.horizon, problem.xdim, refs[p].udim,
                                  problem.seed) :
         StrategyFromRef(p, op, player_idx)
  \/ NumVariables

ConstructSpec == Init /\ [][ConstructNext]_vars

\* The control operators of a view and of the strategy converted from it.
CallNext ==
  \/ \E p \in Players, udim \in Dims, initial_idx \in PackedIdxs :
       NewStrategyRef(p, udim, initial_idx)
  \/ \E p \in Players :
       StrategyFromRef(p, Nominal(refs[p].udim), p)
  \/ \E p \in Players, t \in TimeIndices, x \in XVectors(problem.xdim) :
       RefCall(p, t, x)
  \/ \E t \in 1..problem.horizon, x \in XVectors(problem.xdim) :
       StrategyCall(t, VecSub(x, Nominal(strat.udim).xs[t]),
                    Nominal(strat.udim).us[t][CallPlayer])

CallSpec == Init /\ [][CallNext]_vars

\* The views over the shared primal buffer and the writes through them.
LayoutNext ==
  \/ \E p \in Players, udim \in Dims, initial_idx \in InitialIdxs :
       NewStrategyRef(p, udim, initial_idx)
  \/ \E p \in Players, t \in 1..MaxHorizon, r \in Dims, c \in Dims, v \in Vals :
       WriteP(p, t, r, c, v)
  \/ \E p \in Players, t \in 1..MaxHorizon, k \in Dims, v \in Vals :
       WriteAlpha(p, t, k, v)

LayoutSpec == Init /\ [][LayoutNext]_vars

\* The outer loop.
SolverNext ==
  \/ \E cost \in Costs, finite \in BOOLEAN : Initialize(cost, finite)
  \/ \E finite \in BOOLEAN : Linearize(finite)
  \/ \E ok \in BOOLEAN : Solve(ok)
  \/ \E cost \in Costs, feasible \in BOOLEAN, finite \in BOOLEAN,
        small_update \in BOOLEAN : Rollout(cost, feasible, finite, small_update)

SolverSpec == Init /\ [][SolverNext]_vars

\* The loop is sequential code that always runs its next step.
SolverLiveSpec == SolverSpec /\ WF_vars(SolverNext)

\* The accessors the renderer reads positions and headings through.
ExampleNext ==
  \/ \E x \in JointStates : Xs(x)
  \/ \E x \in JointStates : Ys(x)
  \/ \E x \in JointStates : Thetas(x)

ExampleSpec == Init /\ [][ExampleNext]_vars

Next == ConstructNext \/ CallNext \/ LayoutNext \/ SolverNext \/ ExampleNext

Spec == Init /\ [][Next]_vars

\* ------------------------------- properties -----------------------------
\* An operating point that matches a view's horizon and dimensions.
WellFormedOp(ref, op, player_idx) ==
  /\ Len(op.xs) = ref.horizon
  /\ Len(op.us) = ref.horizon
  /\ \A t \in 1..ref.horizon :
       /\ Len(op.xs[t]) = ref.xdim
       /\ Len(op.us[t][player_idx]) = ref.udim

\* C1: after Strategy(other, op, i) with a matching operating point, the
\* strategy has as many timesteps as other, each gain equals other.Ps[t] and
\* each feedforward equals other.alphas[t] + op.us[t][i] - other.Ps[t]*op.xs[t].
C1_FromRefFormula ==
  (/\ out.op = "StrategyFromRef"
   /\ WellFormedOp(refs[strat.other], strat.op, strat.player_idx))
  => /\ alive
     /\ strat.kind = "fromref"
     /\ Len(strat.Ps) = Len(refs[strat.other].Ps)
     /\ Len(strat.alphas) = Len(refs[strat.other].Ps)
     /\ \A t \in 1..Len(refs[strat.other].Ps) :
          LET P == MapMatrix(primals, refs[strat.other].Ps[t])
              alpha_ref == SegmentVector(primals, refs[strat.other].alphas[t])
              u == strat.op.us[t][strat.player_idx]
              x == strat.op.xs[t]
          IN /\ strat.Ps[t] = P
             /\ MatVecDefined(P, x)
             /\ Len(alpha_ref) = P.rows
             /\ strat.alphas[t] = VecSub(VecAdd(alpha_ref, u), MatVec(P, x))

\* C2: every gain view of a StrategyRef built with (horizon, xdim, udim) has
\* udim rows and xdim columns and every feedforward view has length udim.
C2_RefShape ==
  \A p \in Players :
    refs[p].built =>
      \A t \in 1..Len(refs[p].Ps) :
        /\ refs[p].Ps[t].rows = refs[p].udim
        /\ refs[p].Ps[t].cols = refs[p].xdim
        /\ refs[p].alphas[t].len = refs[p].udim

\* C3: a Strategy preallocated with (horizon, xdim, udim) holds horizon gains
\* of shape udim x xdim and horizon feedforward terms of length udim, all zero.
C3_PreallocShape ==
  strat.kind = "prealloc" =>
    /\ Len(strat.Ps) = problem.horizon
    /\ Len(strat.alphas) = problem.horizon
    /\ \A t \in 1..problem.horizon :
         /\ strat.Ps[t].rows = strat.udim
         /\ strat.Ps[t].cols = problem.xdim
         /\ Len(strat.Ps[t].data) = strat.udim * problem.xdim
         /\ \A k \in 1..Len(strat.Ps[t].data) : strat.Ps[t].data[k] = 0
         /\ Len(strat.alphas[t]) = strat.udim
         /\ \A k \in 1..strat.udim : strat.alphas[t][k] = 0

C3_Witness ==
  /\ strat.kind = "prealloc"
  /\ problem.horizon >= 2
  /\ strat.udim # problem.xdim

\* Buffer indices covered by the views of a StrategyRef.
Covered(ref) ==
  UNION ({PRange(ref.Ps[t]) : t \in 1..Len(ref.Ps)}
         \cup {AlphaRange(ref.alphas[t]) : t \in 1..Len(ref.alphas)})

\* C4: with horizon >= 1, NumVariables() of a preallocated Strategy and of a
\* StrategyRef returns horizon * (udim * xdim + udim); for the StrategyRef
\* that is the number of buffer entries its views cover.
C4_NumVariables ==
  /\ (out.op = "NumVariables" /\ strat.kind = "prealloc" /\ strat.horizon >= 1)
       => out.num = strat.horizon * (strat.udim * strat.xdim + strat.udim)
  /\ (out.op = "RefNumVariables" /\ refs[out.p].horizon >= 1)
       => /\ out.num = refs[out.p].horizon
                         * (refs[out.p].udim * refs[out.p].xdim + refs[out.p].udim)
          /\ out.num = Cardinality(Covered(refs[out.p]))

C4_Witness ==
  /\ out.op = "RefNumVariables"
  /\ refs[out.p].horizon >= 2
  /\ refs[out.p].xdim # refs[out.p].udim
  /\ strat.kind = "prealloc"
  /\ strat.horizon >= 2

\* C5: a malformed setup fails in the constructor: NumVariables() and the
\* control operators never run on a strategy without timesteps, and no
\* Strategy is built from an operating point that does not match the view.
C5_RejectedAtConstruction ==
  /\ out.op \in {"NumVariables", "StrategyCall"} => Len(strat.Ps) >= 1
  /\ out.op \in {"RefNumVariables", "RefCall"} => Len(refs[out.p].Ps) >= 1
  /\ (alive /\ strat.kind = "fromref")
       => WellFormedOp(refs[strat.other], strat.op, strat.player_idx)

\* The views of a StrategyRef, named by kind and timestep, and their ranges.
Views(ref) ==
  {<<"P", t>> : t \in 1..Len(ref.Ps)} \cup {<<"alpha", t>> : t \in 1..Len(ref.alphas)}

ViewRange(ref, v) ==
  IF v[1] = "P" THEN PRange(ref.Ps[v[2]]) ELSE AlphaRange(ref.alphas[v[2]])

\* One past the last buffer index of the slot a view was built for.
RefEnd(ref) == ref.initial_idx + ref.horizon * (ref.xdim * ref.udim + ref.udim)

\* The views lie in the order P_0, alpha_0, P_1, alpha_1, ..., are pairwise
\* disjoint and cover exactly [initial_idx, initial_idx + NumVariables()).
LayoutOK(ref) ==
  /\ Len(ref.Ps) = ref.horizon
  /\ Len(ref.alphas) = ref.horizon
  /\ \A t \in 1..ref.horizon :
       /\ ref.Ps[t].off =
            ref.initial_idx + (t - 1) * (ref.xdim * ref.udim + ref.udim)
       /\ ref.alphas[t].off = ref.Ps[t].off + ref.xdim * ref.udim
       /\ Cardinality(PRange(ref.Ps[t])) = ref.xdim * ref.udim
       /\ Cardinality(AlphaRange(ref.alphas[t])) = ref.udim
  /\ \A v \in Views(ref), w \in Views(ref) :
       v # w => ViewRange(ref, v) \cap ViewRange(ref, w) = {}
  /\ ref.horizon >= 1 =>
       Covered(ref) =
         ref.initial_idx..(ref.initial_idx + StrategyRefNumVariables(ref) - 1)

\* Two slots of which one starts where the other ends.
Packed(a, b) == b.initial_idx = RefEnd(a) \/ a.initial_idx = RefEnd(b)

\* A write through one view leaves the entries of every other view of the
\* same player, and of every view of a player in an adjoining slot, unchanged.
FrameStep ==
  nwrites' = nwrites + 1 =>
    \A q \in Players :
      (refs[q].built /\ (q = lastWrite'.p \/ Packed(refs[lastWrite'.p], refs[q])))
        => \A v \in Views(refs[q]) :
             (q # lastWrite'.p \/ v # <<lastWrite'.kind, lastWrite'.t>>)
               => \A j \in ViewRange(refs[q], v) : primals'[j + 1] = primals[j + 1]

\* C6: the views of a StrategyRef occupy pairwise-disjoint ranges that cover
\* exactly [initial_idx, initial_idx + NumVariables()) in the order P_0,
\* alpha_0, P_1, alpha_1, ...; a write through one view changes no entry of
\* another timestep's views nor of the views of a player in an adjoining slot.
C6_DisjointSlots ==
  /\ [](\A p \in Players : refs[p].built => LayoutOK(refs[p]))
  /\ [][FrameStep]_vars

C6_Witness ==
  /\ nwrites >= 1
  /\ lastWrite.p = 1
  /\ refs[1].built /\ refs[2].built
  /\ refs[1].horizon >= 2
  /\ refs[2].initial_idx = RefEnd(refs[1])
  /\ primals # [k \in 1..BufLen |-> Val(problem.seed + k)]

RECURSIVE Pow2(_)
Pow2(n) == IF n = 0 THEN 1 ELSE 2 * Pow2(n - 1)

\* The line search has made rollouts rollouts and halved the scale after
\* each rejection; every scale it tries lies in (0, 1].
LineSearchInv ==
  /\ rollouts <= MaxBacktrackingSteps
  /\ scale.num > 0 /\ scale.num <= scale.den
  /\ cand.num > 0 /\ cand.num <= cand.den
  /\ (state = "LineSearching" /\ rollouts = 0) => (scale.num = 1 /\ scale.den = 1)
  /\ state = "LineSearching" => (scale.num = 1 /\ scale.den = Pow2(rollouts))

\* A rejected rollout halves the scale; when the budget is used up without
\* an accepted candidate the loop moves to Converged; the line search moves
\* to Failed only on a non-finite rollout.
LineSearchStep ==
  /\ (state = "LineSearching" /\ rollouts' = rollouts + 1)
       => (cand'.num = scale.num /\ cand'.den = scale.den)
  /\ (state = "LineSearching" /\ rollouts' = rollouts + 1
        /\ cand'.finite /\ ~cand'.accepted)
       => /\ scale'.num = scale.num /\ scale'.den = 2 * scale.den
          /\ state' = (IF rollouts' = MaxBacktrackingSteps
                         THEN "Converged" ELSE "LineSearching")
  /\ (state = "LineSearching" /\ state' = "Failed") => ~cand'.finite

OuterLoopStep ==
  /\ state \in Terminal => UNCHANGED solverVars
  /\ iteration' # iteration
       => (iteration' = iteration + 1 /\ state = "LineSearching"
           /\ state' = "Linearizing")
  /\ (state = "LineSearching" /\ state' = "Linearizing")
       => iteration' = iteration + 1
  /\ (state = "LineSearching" /\ iteration = MaxIterations /\ cand'.accepted
        /\ rollouts' = rollouts + 1)
       => state' = "Converged"

OuterLoopInv ==
  /\ iteration <= MaxIterations
  /\ status = "nonconverged" => (state = "Converged" /\ iteration = MaxIterations)
  /\ state = "Failed" <=> status = "failed"
  /\ state = "Converged" <=> status \in {"converged", "nonconverged"}

Monotone ==
  /\ \A k \in 1..(Len(log) - 1) : log[k + 1].cost <= log[k].cost + NumericalSlack
  /\ Len(log) > 0 => (log[Len(log)].op = nominal.id
                      /\ log[Len(log)].cost = nominal.cost)

\* A rejected candidate leaves the nominal operating point and the log alone.
RejectKeepsNominal ==
  (state = "LineSearching" /\ rollouts' = rollouts + 1 /\ ~cand'.accepted)
    => (nominal' = nominal /\ log' = log)

\* C9: for consecutive accepted operating points of the log the cost at k+1
\* is at most the cost at k plus the slack, and a rejected candidate never
\* replaces or alters the last accepted operating point.
C9_MonotoneImprovement == []Monotone /\ [][RejectKeepsNominal]_vars

C9_Witness ==
  /\ Len(log) >= 3
  /\ ~cand.accepted /\ cand.finite /\ cand.feasible
  /\ cand.cost >= nominal.cost
  /\ cand.id = nominal.id + 1

\* C10: for a view ref of player i and a matching operating point op, the
\* strategy S = Strategy(ref, op, i) returns at every timestep t and state x
\* the control S(t, x - op.xs[t], op.us[t][i]) = ref(t, x).
C10_ControlLawPreserved ==
  (/\ out.op = "StrategyFromRef"
   /\ WellFormedOp(refs[strat.other], strat.op, strat.player_idx))
  => /\ alive
     /\ \A t \in 1..refs[strat.other].horizon :
          \A x \in XVectors(refs[strat.other].xdim) :
            LET delta_x == VecSub(x, strat.op.xs[t])
                u_ref == strat.op.us[t][strat.player_idx]
            IN /\ RefCallDefined(refs[strat.other], t, x)
               /\ StrategyCallDefined(strat, t, delta_x, u_ref)
               /\ StrategyCallValue(strat, t, delta_x, u_ref)
                    = RefCallValue(primals, refs[strat.other], t, x)

\* The number of players of the one-player example.
ExampleNumPlayers == 1

\* C11: for every joint state x, Xs(x) is the one-entry list holding the x
\* position x(kPxIdx), Ys(x) the y position x(kPyIdx) and Thetas(x) the
\* heading x(kThetaIdx), one entry per player.
C11_Accessors ==
  /\ ret.fn # "none" => Len(ret.val) = ExampleNumPlayers
  /\ ret.fn = "Xs" => ret.val = <<At(ret.x, kPxIdx)>>
  /\ ret.fn = "Ys" => ret.val = <<At(ret.x, kPyIdx)>>
  /\ ret.fn = "Thetas" => ret.val = <<At(ret.x, kThetaIdx)>>

====
